---- MODULE Spec2Model ----
(***************************************************************************)
(* Room coordinator and game state machine of the tic-tac-toe backend:     *)
(* the persistence port (players and games tables), GameService            *)
(* (HandleJoinRoom, MakeMove, checkWinner), ServeWs, broadcastGameState,   *)
(* the Hub and the per-connection reader.                                  *)
(*                                                                         *)
(* Every handler is a sequence of steps, one per access to shared state    *)
(* (a repository call, a channel operation, a hub-lock section).  A step   *)
(* is an operator from a state record to the next state record, so that    *)
(* the same definitions serve every specification:                         *)
(*   Spec        runs each operation to completion before the next starts; *)
(*   SpecRace    interleaves the steps of concurrent operations;           *)
(*   SpecJoin    runs joins under several names, one at a time;            *)
(*   SpecRooms   runs moves and resets in two rooms;                       *)
(*   SpecOverlap interleaves the steps of frames handled concurrently;     *)
(*   SpecHub     follows three connections to the end of their pumps, and  *)
(*               SpecHubFair adds fair scheduling of the pumps and Hub.Run;*)
(*   SpecBoards  applies MakeMove to every board.                          *)
(***************************************************************************)
EXTENDS Integers, Sequences, FiniteSets, TLC

VARIABLES
    players,   \* players table: sequence of rows, the row's index is its ID
    games,     \* games table: sequence of rows, the row's index is its ID
    rooms,     \* Hub.rooms: room id -> set of clients (absent entry = {})
    send,      \* Client.send: the outbound queue of each client
    closed,    \* clients whose send channel has been closed
    client,    \* the Client struct built by ServeWs for each task
    pc,        \* position of each task in its handler
    loc,       \* local variables of each task's handler
    hubReg,    \* client received by Hub.Run from h.register, not yet added
    roomIDUnique, \* whether the games table carries UNIQUE on room_id
    conn,      \* Client.conn: the state of each client's socket
    writer,    \* position of each client's writePump
    hubUnreg,  \* client received by Hub.Run from h.unregister, and how far it is
    mu,        \* Hub.mu: the tasks that hold the read lock
    panic      \* the runtime panic that has ended the process, "" if none

vars == <<players, games, rooms, send, closed, client, pc, loc, hubReg, roomIDUnique,
          conn, writer, hubUnreg, mu, panic>>

----------------------------------------------------------------------------
(* Bounds *)

NTasks == 3
MaxGames == 2
MaxRacing == 2
QueueCap == 2

Tasks == 1 .. NTasks
Rooms == {"r1", "r2"}
Names == {"alice", "bob", "carol"}
Positions == -1 .. 9

----------------------------------------------------------------------------
(* Domain values *)

NoID == 0
Blank == " "
EmptyBoard == <<" ", " ", " ", " ", " ", " ", " ", " ", " ">>

NoPlayer == [id |-> NoID, name |-> "", wins |-> 0, draws |-> 0, losses |-> 0]

NoGame ==
    [id |-> NoID, roomID |-> "", playerXID |-> NoID, playerOID |-> NoID,
     winnerID |-> NoID, status |-> "", board |-> <<>>, currentTurn |-> "",
     playerX |-> "", playerO |-> ""]

\* Hub.Run is at its select: it holds no client to unregister.
NoUnreg == [c |-> NoID, at |-> "select"]

NoClient == [room |-> "", playerID |-> NoID, playerName |-> "", isObserver |-> FALSE]

NoLoc ==
    [kind |-> "", room |-> "", name |-> "", player |-> NoID, game |-> NoGame,
     isObserver |-> FALSE, err |-> "", position |-> 0, symbol |-> "",
     bcGame |-> NoGame, bcX |-> NoPlayer, bcO |-> NoPlayer, after |-> "",
     stat |-> NoPlayer, bcTodo |-> {}]

ErrorFrame(m) == [type |-> "error", message |-> m, gameState |-> NoGame,
                  X |-> NoPlayer, O |-> NoPlayer, isObserver |-> FALSE]

StateFrame(g, px, po) == [type |-> "gameStateUpdate", message |-> "", gameState |-> g,
                          X |-> px, O |-> po, isObserver |-> FALSE]

----------------------------------------------------------------------------
(* strings.ToLower, strings.TrimSpace and strings.EqualFold on the names   *)
(* the model uses.                                                         *)

ToLower(n) == CASE n = "Alice" -> "alice" [] OTHER -> n

TrimSpace(n) == CASE n = " bob" -> "bob" [] n = "bob " -> "bob" [] OTHER -> n

EqualFold(a, b) == ToLower(a) = ToLower(b)

----------------------------------------------------------------------------
(* Persistence port (GormGameRepository)                                   *)

\* The least index of a set of row indices, 0 when there is none (First).
MinIndex(S) == IF S = {} THEN 0 ELSE CHOOSE i \in S : \A j \in S : i <= j

PlayerIDByName(ps, name) == MinIndex({i \in 1 .. Len(ps) : ps[i].name = name})

\* GetOrCreatePlayerByName that inserts a row whether or not the name exists.
GetOrCreatePlayerAlwaysInserts(ps, name) ==
    Append(ps, [id |-> Len(ps) + 1, name |-> name, wins |-> 0, draws |-> 0, losses |-> 0])

\* FirstOrCreate: the row with this name, inserted with zero statistics if absent.
GetOrCreatePlayerByName(ps, name) ==
    IF PlayerIDByName(ps, name) # 0 THEN ps
    ELSE Append(ps, [id |-> Len(ps) + 1, name |-> name,
                     wins |-> 0, draws |-> 0, losses |-> 0])

GetPlayerByID(ps, id) == IF id \in 1 .. Len(ps) THEN ps[id] ELSE NoPlayer

\* db.Save(player): the whole row is written.
UpdatePlayer(ps, p) == IF p.id \in 1 .. Len(ps) THEN [ps EXCEPT ![p.id] = p] ELSE ps

PlayerName(ps, id) == GetPlayerByID(ps, id).name

\* First row with this room_id, with PlayerX and PlayerO preloaded; NoGame is
\* the "record not found" error.
GetByRoomID(gs, ps, roomID) ==
    LET i == MinIndex({k \in 1 .. Len(gs) : gs[k].roomID = roomID})
    IN  IF i = 0 THEN NoGame
        ELSE [gs[i] EXCEPT !.playerX = PlayerName(ps, gs[i].playerXID),
                           !.playerO = PlayerName(ps, gs[i].playerOID)]

\* The columns of a games row (associations are not columns).
Row(g) == [g EXCEPT !.playerX = "", !.playerO = ""]

\* The insert fails when room_id is UNIQUE and a row of that room exists.  The
\* migration script shipped now declares room_id without UNIQUE, its earlier
\* revision declared it UNIQUE, and CREATE TABLE IF NOT EXISTS keeps whichever
\* one the database was first initialised with; the Game struct that
\* AutoMigrate reads has no unique index.
CreateFails(gs, g, unique) == unique /\ \E i \in 1 .. Len(gs) : gs[i].roomID = g.roomID

Create(gs, g) == Append(gs, Row([g EXCEPT !.id = Len(gs) + 1]))

\* db.Save(game): every column of the row with the game's primary key is written.
Update(gs, g) == IF g.id \in 1 .. Len(gs) THEN [gs EXCEPT ![g.id] = Row(g)] ELSE gs

----------------------------------------------------------------------------
(* The state record the steps work on *)

St == [players |-> players, games |-> games, rooms |-> rooms, send |-> send,
       closed |-> closed, client |-> client, pc |-> pc, loc |-> loc,
       hubReg |-> hubReg, roomIDUnique |-> roomIDUnique, conn |-> conn,
       writer |-> writer, hubUnreg |-> hubUnreg, mu |-> mu, panic |-> panic]

\* The state record s becomes the next state.
Install(s) ==
    \E v \in {s} :
        /\ players' = v.players
        /\ games' = v.games
        /\ rooms' = v.rooms
        /\ send' = v.send
        /\ closed' = v.closed
        /\ client' = v.client
        /\ pc' = v.pc
        /\ loc' = v.loc
        /\ hubReg' = v.hubReg
        /\ roomIDUnique' = v.roomIDUnique
        /\ conn' = v.conn
        /\ writer' = v.writer
        /\ hubUnreg' = v.hubUnreg
        /\ mu' = v.mu
        /\ panic' = v.panic

Goto(s, t, label) == [s EXCEPT !.pc[t] = label]

\* The handler of task t is over: its locals go out of scope, its error stays.
Finish(s, t, label, err) ==
    [s EXCEPT !.pc[t] = label, !.loc[t] = [NoLoc EXCEPT !.err = err]]

\* A runtime panic that no goroutine recovers: the process ends.
Panic(s, message) == [s EXCEPT !.panic = message]

----------------------------------------------------------------------------
(* GameService.HandleJoinRoom *)

ErrNameLength == "player name must be between 1 and 15 characters"
ErrNameTaken == "a player with this name already exists in the room"
ErrNameTakenO == "a player with this name already already exists in the room"

\* Where a join goes when HandleJoinRoom returns an error or a result.
JoinFailed(s, t, err) == Finish(s, t, "rejected", err)

JoinReturned(s, t, g) ==
    IF s.loc[t].kind = "http"
    THEN Finish(s, t, "joined", "")
    ELSE [s EXCEPT !.pc[t] = "ws_client", !.loc[t].game = g]

\* A new request: the handler starts with the name validation.
StartJoin(s, t, kind, roomID, name) ==
    LET s1 == [s EXCEPT !.loc[t] = [NoLoc EXCEPT !.kind = kind, !.room = roomID,
                                                !.name = name]]
    IN  IF Len(name) = 0 \/ Len(name) > 15
        THEN JoinFailed(s1, t, ErrNameLength)
        ELSE Goto(s1, t, "join_player")

JoinGetPlayer(s, t) ==
    LET ps == GetOrCreatePlayerByName(s.players, s.loc[t].name)
    IN  [s EXCEPT !.players = ps,
                  !.loc[t].player = PlayerIDByName(ps, s.loc[t].name),
                  !.pc[t] = "join_get"]

\* The checks and the seat decision on a game that already existed.
JoinExisting(s, t, g) ==
    LET l == s.loc[t]
        normalized == ToLower(TrimSpace(l.name))
        isObserver == g.status = "in_progress"
                        \/ (g.playerXID # NoID /\ g.playerOID # NoID)
    IN  IF g.playerX # "" /\ ToLower(g.playerX) = normalized
        THEN JoinFailed(s, t, ErrNameTaken)
        ELSE IF g.playerO # "" /\ ToLower(g.playerO) = normalized
        THEN JoinFailed(s, t, ErrNameTakenO)
        ELSE IF isObserver
        THEN JoinReturned(s, t, g)
        ELSE IF g.playerOID = NoID /\ g.playerXID # l.player
        THEN [s EXCEPT !.pc[t] = "join_update",
                       !.loc[t].game = [g EXCEPT !.playerOID = l.player,
                                                 !.playerO = l.name]]
        ELSE IF g.playerXID = NoID
        THEN [s EXCEPT !.pc[t] = "join_update",
                       !.loc[t].game = [g EXCEPT !.playerXID = l.player,
                                                 !.playerX = l.name]]
        ELSE JoinReturned(s, t, g)

JoinGetGame(s, t) ==
    LET l == s.loc[t]
        existingGame == GetByRoomID(s.games, s.players, l.room)
    IN  IF existingGame = NoGame
        THEN [s EXCEPT !.pc[t] = "join_create",
                       !.loc[t].game =
                           [NoGame EXCEPT !.roomID = l.room, !.playerXID = l.player,
                                          !.playerX = l.name, !.status = "waiting",
                                          !.board = EmptyBoard, !.currentTurn = "X"]]
        ELSE JoinExisting(s, t, existingGame)

JoinCreate(s, t) ==
    LET newGame == s.loc[t].game
    IN  IF CreateFails(s.games, newGame, s.roomIDUnique)
        THEN Goto(s, t, "join_reget")
        ELSE LET gs == Create(s.games, newGame)
             IN  JoinReturned([s EXCEPT !.games = gs], t,
                              [newGame EXCEPT !.id = Len(gs)])

\* After a failed Create: the game the other request created is read and
\* returned; no seat is assigned on this path.
JoinReget(s, t) ==
    LET l == s.loc[t]
        finalGame == GetByRoomID(s.games, s.players, l.room)
    IN  IF finalGame = NoGame
        THEN JoinFailed(s, t, "failed to create or retrieve game after creation attempt")
        ELSE IF finalGame.playerX # "" /\ EqualFold(finalGame.playerX, l.name)
        THEN JoinFailed(s, t, ErrNameTaken)
        ELSE IF finalGame.playerO # "" /\ EqualFold(finalGame.playerO, l.name)
        THEN JoinFailed(s, t, ErrNameTaken)
        ELSE JoinReturned(s, t, finalGame)

JoinUpdate(s, t) ==
    JoinReturned([s EXCEPT !.games = Update(s.games, s.loc[t].game)], t, s.loc[t].game)

----------------------------------------------------------------------------
(* Hub *)

\* Hub.Run, case client := <-h.register, under the write lock.
HubRegister(s) ==
    LET c == s.hubReg
    IN  [s EXCEPT !.rooms[s.client[c].room] = @ \cup {c}, !.hubReg = NoID]

\* BroadcastClient that sends to seated players only.
BroadcastClientSeatedOnly(s, roomID, c, message) ==
    IF s.client[c].isObserver THEN s
    ELSE IF Len(s.send[c]) < QueueCap
    THEN [s EXCEPT !.send[c] = Append(@, message)]
    ELSE [s EXCEPT !.closed = @ \cup {c}, !.rooms[roomID] = @ \ {c}]

\* BroadcastClient that passes over a client whose queue is full.
BroadcastClientKeepsFull(s, roomID, c, message) ==
    IF Len(s.send[c]) < QueueCap
    THEN [s EXCEPT !.send[c] = Append(@, message)]
    ELSE s

\* One iteration of the range loop of Hub.broadcast, on member c of the room:
\* select { case client.send <- message: default: close(client.send);
\* delete(room, client) }.
BroadcastClient(s, roomID, c, message) ==
    IF Len(s.send[c]) < QueueCap
    THEN [s EXCEPT !.send[c] = Append(@, message)]
    ELSE [s EXCEPT !.closed = @ \cup {c}, !.rooms[roomID] = @ \ {c}]

\* The range loop over the clients in todo.
RECURSIVE BroadcastLoop(_, _, _, _)
BroadcastLoop(s, roomID, todo, message) ==
    IF todo = {} THEN s
    ELSE LET c == CHOOSE c \in todo : TRUE
         IN  BroadcastLoop(BroadcastClient(s, roomID, c, message), roomID,
                           todo \ {c}, message)

\* Hub.broadcast, from RLock to RUnlock, when no other task is in it.
HubBroadcast(s, roomID, message) == BroadcastLoop(s, roomID, s.rooms[roomID], message)

----------------------------------------------------------------------------
(* broadcastGameState: three repository reads, then Hub.broadcast *)

StartBroadcast(s, t, after) == [s EXCEPT !.pc[t] = "bc_game", !.loc[t].after = after]

EndBroadcast(s, t) ==
    [s EXCEPT !.pc[t] = s.loc[t].after,
              !.loc[t].after = "", !.loc[t].bcGame = NoGame,
              !.loc[t].bcX = NoPlayer, !.loc[t].bcO = NoPlayer]

BroadcastGetGame(s, t) ==
    LET game == GetByRoomID(s.games, s.players, s.loc[t].room)
    IN  IF game = NoGame THEN EndBroadcast(s, t)
        ELSE [s EXCEPT !.pc[t] = "bc_x", !.loc[t].bcGame = game]

BroadcastGetX(s, t) ==
    [s EXCEPT !.pc[t] = "bc_o",
              !.loc[t].bcX = GetPlayerByID(s.players, s.loc[t].bcGame.playerXID)]

BroadcastGetO(s, t) ==
    [s EXCEPT !.pc[t] = "bc_send",
              !.loc[t].bcO = GetPlayerByID(s.players, s.loc[t].bcGame.playerOID)]

BroadcastSend(s, t) ==
    LET l == s.loc[t]
    IN  EndBroadcast(HubBroadcast(s, l.room, StateFrame(Row(l.bcGame), l.bcX, l.bcO)), t)

----------------------------------------------------------------------------
(* ServeWs, after HandleJoinRoom has returned game and player *)

\* WsClient that never sets the observer flag.
WsClientNeverObserver(s, t) ==
    LET l == s.loc[t]
    IN  [s EXCEPT !.client[t] = [room |-> l.room, playerID |-> l.player,
                                 playerName |-> l.name, isObserver |-> FALSE],
                  !.loc[t].isObserver = FALSE,
                  !.pc[t] = "ws_register"]

WsClient(s, t) ==
    LET l == s.loc[t]
        game == l.game
        isObserver == game.status = "in_progress"
                        \/ (game.playerXID # NoID /\ game.playerXID # l.player
                            /\ game.playerOID # NoID /\ game.playerOID # l.player)
    IN  [s EXCEPT !.client[t] = [room |-> l.room, playerID |-> l.player,
                                 playerName |-> l.name, isObserver |-> isObserver],
                  !.loc[t].isObserver = isObserver,
                  !.pc[t] = "ws_register"]

\* hub.register <- client: the rendezvous with Hub.Run, which then holds the client.
WsRegister(s, t) ==
    StartBroadcast([s EXCEPT !.hubReg = t], t, "ws_start")

\* WsStart without the start of the game.
WsStartSkipped(s, t) == Goto(s, t, "ws_pumps")

\* if !isObserver && game.Status == "waiting" && both seats filled: start the game.
WsStart(s, t) ==
    LET l == s.loc[t]
        game == l.game
    IN  IF ~l.isObserver /\ game.status = "waiting"
           /\ game.playerXID # NoID /\ game.playerOID # NoID
        THEN LET started == [game EXCEPT !.status = "in_progress", !.currentTurn = "X"]
             IN  StartBroadcast([s EXCEPT !.games = Update(s.games, started),
                                          !.loc[t].game = started], t, "ws_pumps")
        ELSE Goto(s, t, "ws_pumps")

\* go client.writePump(); go client.readPump(gameService)
\* From here on the socket, open since the upgrade, is read and written.
WsPumps(s, t) ==
    Finish([s EXCEPT !.conn[t] = "open", !.writer[t] = "running"], t, "reader", "")

----------------------------------------------------------------------------
(* checkWinner *)

WinConditions ==
    << <<0, 1, 2>>, <<3, 4, 5>>, <<6, 7, 8>>,
       <<0, 3, 6>>, <<1, 4, 7>>, <<2, 5, 8>>,
       <<0, 4, 8>>, <<2, 4, 6>> >>

\* board[i] of the code, which counts cells from 0.
Cell(board, i) == board[i + 1]

Matches(board, c) ==
    /\ Cell(board, c[1]) # Blank
    /\ Cell(board, c[1]) = Cell(board, c[2])
    /\ Cell(board, c[2]) = Cell(board, c[3])

\* checkWinner over the rows and columns only.
checkWinnerNoDiagonals(board) ==
    LET hits == {k \in 1 .. 6 : Matches(board, WinConditions[k])}
    IN  IF hits = {} THEN ""
        ELSE Cell(board, WinConditions[MinIndex(hits)][1])

\* checkWinner that answers with the last matching triple of winConditions.
checkWinnerLastTriple(board) ==
    LET hits == {k \in 1 .. Len(WinConditions) : Matches(board, WinConditions[k])}
    IN  IF hits = {} THEN ""
        ELSE Cell(board, WinConditions[CHOOSE k \in hits : \A j \in hits : j <= k][1])

\* The symbol of the first matching triple in the order of winConditions, "" if none.
checkWinner(board) ==
    LET hits == {k \in 1 .. Len(WinConditions) : Matches(board, WinConditions[k])}
    IN  IF hits = {} THEN ""
        ELSE Cell(board, WinConditions[MinIndex(hits)][1])

\* strings.Contains(board, " ")
ContainsBlank(board) == \E i \in 1 .. Len(board) : board[i] = Blank

----------------------------------------------------------------------------
(* GameService.MakeMove *)

ErrGameNotFound == "game not found"
ErrNotInProgress == "game is not currently in progress"
ErrOutOfBounds == "invalid move: position is out of bounds"
ErrTaken == "invalid move: position is already taken"
ErrNotYourTurn == "it is not your turn"

\* MoveError without the check that the cell is blank.
MoveErrorNoTakenCheck(game, playerID, position) ==
    LET expectedPlayerID == IF game.currentTurn = "X" THEN game.playerXID
                            ELSE game.playerOID
    IN  IF game = NoGame THEN ErrGameNotFound
        ELSE IF game.status # "in_progress" THEN ErrNotInProgress
        ELSE IF position < 0 \/ position > 8 THEN ErrOutOfBounds
        ELSE IF expectedPlayerID = NoID \/ playerID # expectedPlayerID
        THEN ErrNotYourTurn
        ELSE ""

\* MoveError with the turn check ahead of the bounds and occupancy checks.
MoveErrorTurnFirst(game, playerID, position) ==
    LET expectedPlayerID == IF game.currentTurn = "X" THEN game.playerXID
                            ELSE game.playerOID
    IN  IF game = NoGame THEN ErrGameNotFound
        ELSE IF game.status # "in_progress" THEN ErrNotInProgress
        ELSE IF expectedPlayerID = NoID \/ playerID # expectedPlayerID
        THEN ErrNotYourTurn
        ELSE IF position < 0 \/ position > 8 THEN ErrOutOfBounds
        ELSE IF Cell(game.board, position) # Blank THEN ErrTaken
        ELSE ""

\* The input validations, in the order of the code; "" when the move is valid.
MoveError(game, playerID, position) ==
    LET expectedPlayerID == IF game.currentTurn = "X" THEN game.playerXID
                            ELSE game.playerOID
    IN  IF game = NoGame THEN ErrGameNotFound
        ELSE IF game.status # "in_progress" THEN ErrNotInProgress
        ELSE IF position < 0 \/ position > 8 THEN ErrOutOfBounds
        ELSE IF Cell(game.board, position) # Blank THEN ErrTaken
        ELSE IF expectedPlayerID = NoID \/ playerID # expectedPlayerID
        THEN ErrNotYourTurn
        ELSE ""

\* MoveApplied that writes "X" whoever is on turn.
MoveAppliedMarksX(game, position) ==
    LET board == [game.board EXCEPT ![position + 1] = "X"]
        winnerSymbol == checkWinner(board)
        marked == [game EXCEPT !.board = board]
    IN  IF winnerSymbol # ""
        THEN [marked EXCEPT !.status = "finished",
                            !.winnerID = IF winnerSymbol = "X" THEN game.playerXID
                                         ELSE game.playerOID]
        ELSE IF ~ContainsBlank(board)
        THEN [marked EXCEPT !.status = "finished"]
        ELSE [marked EXCEPT !.currentTurn = IF game.currentTurn = "X" THEN "O" ELSE "X"]

\* MoveApplied with a turn that stays with the mover.
MoveAppliedSameTurn(game, position) ==
    LET expectedSymbol == IF game.currentTurn = "X" THEN "X" ELSE "O"
        board == [game.board EXCEPT ![position + 1] = expectedSymbol]
        winnerSymbol == checkWinner(board)
        marked == [game EXCEPT !.board = board]
    IN  IF winnerSymbol # ""
        THEN [marked EXCEPT !.status = "finished",
                            !.winnerID = IF winnerSymbol = "X" THEN game.playerXID
                                         ELSE game.playerOID]
        ELSE IF ~ContainsBlank(board)
        THEN [marked EXCEPT !.status = "finished"]
        ELSE marked

\* The state transition on the handler's copy of the game: the mark, then the outcome.
MoveApplied(game, position) ==
    LET expectedSymbol == IF game.currentTurn = "X" THEN "X" ELSE "O"
        board == [game.board EXCEPT ![position + 1] = expectedSymbol]
        winnerSymbol == checkWinner(board)
        marked == [game EXCEPT !.board = board]
    IN  IF winnerSymbol # ""
        THEN [marked EXCEPT !.status = "finished",
                            !.winnerID = IF winnerSymbol = "X" THEN game.playerXID
                                         ELSE game.playerOID]
        ELSE IF ~ContainsBlank(board)
        THEN [marked EXCEPT !.status = "finished"]
        ELSE [marked EXCEPT !.currentTurn = IF game.currentTurn = "X" THEN "O" ELSE "X"]

\* GetByRoomID, the validations, the transition and the branch on the outcome.
MoveGet(s, t) ==
    LET l == s.loc[t]
        game == GetByRoomID(s.games, s.players, l.room)
        err == MoveError(game, l.player, l.position)
        moved == MoveApplied(game, l.position)
        winnerSymbol == checkWinner(moved.board)
    IN  IF err # ""
        THEN [s EXCEPT !.pc[t] = IF l.kind = "legacy" THEN "lg_err" ELSE "mv_err",
                       !.loc[t].err = err]
        ELSE LET s1 == [s EXCEPT !.loc[t].game = moved, !.loc[t].symbol = winnerSymbol]
             IN  IF winnerSymbol # ""
                 THEN Goto(s1, t, IF moved.winnerID # NoID THEN "mv_win_get" ELSE "mv_update")
                 ELSE IF ~ContainsBlank(moved.board)
                 THEN Goto(s1, t, IF moved.playerXID # NoID THEN "mv_dx_get"
                                  ELSE IF moved.playerOID # NoID THEN "mv_do_get"
                                  ELSE "mv_update")
                 ELSE Goto(s1, t, "mv_update")

\* winner, err := GetPlayerByID(*game.WinnerID); winner.Wins++
MoveWinGet(s, t) ==
    LET winner == GetPlayerByID(s.players, s.loc[t].game.winnerID)
    IN  IF winner # NoPlayer
        THEN [s EXCEPT !.pc[t] = "mv_win_put",
                       !.loc[t].stat = [winner EXCEPT !.wins = @ + 1]]
        ELSE Goto(s, t, "mv_update")

\* MoveWinPut that leaves the loser's statistics alone.
MoveWinPutNoLoser(s, t) ==
    [s EXCEPT !.players = UpdatePlayer(s.players, s.loc[t].stat),
              !.loc[t].stat = NoPlayer, !.pc[t] = "mv_update"]

\* UpdatePlayer(winner); then the loser is the player of the other seat
\* (game.WinnerID == game.PlayerXID holds exactly when X won).
MoveWinPut(s, t) ==
    LET l == s.loc[t]
        loserID == IF l.symbol = "X" THEN l.game.playerOID ELSE l.game.playerXID
    IN  [s EXCEPT !.players = UpdatePlayer(s.players, l.stat),
                  !.loc[t].stat = NoPlayer,
                  !.pc[t] = IF loserID # NoID THEN "mv_lose_get" ELSE "mv_update"]

MoveLoseGet(s, t) ==
    LET l == s.loc[t]
        loserID == IF l.symbol = "X" THEN l.game.playerOID ELSE l.game.playerXID
        loser == GetPlayerByID(s.players, loserID)
    IN  IF loser # NoPlayer
        THEN [s EXCEPT !.pc[t] = "mv_lose_put",
                       !.loc[t].stat = [loser EXCEPT !.losses = @ + 1]]
        ELSE Goto(s, t, "mv_update")

MoveLosePut(s, t) ==
    [s EXCEPT !.players = UpdatePlayer(s.players, s.loc[t].stat),
              !.loc[t].stat = NoPlayer, !.pc[t] = "mv_update"]

MoveDrawXGet(s, t) ==
    LET l == s.loc[t]
        playerX == GetPlayerByID(s.players, l.game.playerXID)
    IN  IF playerX # NoPlayer
        THEN [s EXCEPT !.pc[t] = "mv_dx_put",
                       !.loc[t].stat = [playerX EXCEPT !.draws = @ + 1]]
        ELSE Goto(s, t, IF l.game.playerOID # NoID THEN "mv_do_get" ELSE "mv_update")

\* MoveDrawXPut that goes on without the draw of seat O.
MoveDrawXPutOnly(s, t) ==
    [s EXCEPT !.players = UpdatePlayer(s.players, s.loc[t].stat),
              !.loc[t].stat = NoPlayer, !.pc[t] = "mv_update"]

\* UpdatePlayer(playerX); then seat O, when it is filled.
MoveDrawXPut(s, t) ==
    [s EXCEPT !.players = UpdatePlayer(s.players, s.loc[t].stat),
              !.loc[t].stat = NoPlayer,
              !.pc[t] = IF s.loc[t].game.playerOID # NoID THEN "mv_do_get"
                        ELSE "mv_update"]

MoveDrawOGet(s, t) ==
    LET playerO == GetPlayerByID(s.players, s.loc[t].game.playerOID)
    IN  IF playerO # NoPlayer
        THEN [s EXCEPT !.pc[t] = "mv_do_put",
                       !.loc[t].stat = [playerO EXCEPT !.draws = @ + 1]]
        ELSE Goto(s, t, "mv_update")

MoveDrawOPut(s, t) ==
    [s EXCEPT !.players = UpdatePlayer(s.players, s.loc[t].stat),
              !.loc[t].stat = NoPlayer, !.pc[t] = "mv_update"]

\* s.repo.Update(game); MakeMove returns and readPump broadcasts.
MoveUpdate(s, t) ==
    StartBroadcast([s EXCEPT !.games = Update(s.games, s.loc[t].game)], t, "frame_done")

\* s.repo.Update(game) returns an error: MakeMove returns it, after the
\* statistics have been written.
MoveUpdateFails(s, t) ==
    [s EXCEPT !.pc[t] = IF s.loc[t].kind = "legacy" THEN "lg_err" ELSE "mv_err",
              !.loc[t].err = "update failed"]

----------------------------------------------------------------------------
(* Client.readPump *)

ErrObserverMove == "Observers cannot make moves"

\* The frame has been handled: readPump is back at ReadMessage.
FrameDone(s, t) == Finish(s, t, "reader", "")

ReaderLoc(s, t) ==
    [NoLoc EXCEPT !.kind = "frame", !.room = s.client[t].room,
                  !.name = s.client[t].playerName, !.player = s.client[t].playerID,
                  !.isObserver = s.client[t].isObserver]

\* case "move"
MoveFrame(s, t, position) ==
    LET s1 == [s EXCEPT !.loc[t] = [ReaderLoc(s, t) EXCEPT !.position = position]]
    IN  IF s.client[t].isObserver
        THEN [s1 EXCEPT !.pc[t] = "obs_err", !.loc[t].err = ErrObserverMove]
        ELSE Goto(s1, t, "mv_get")

\* A frame that is a bare integer: the struct does not parse, the position does.
LegacyMoveFrame(s, t, position) ==
    LET s1 == [s EXCEPT !.loc[t] = [ReaderLoc(s, t) EXCEPT !.kind = "legacy",
                                                          !.position = position]]
    IN  IF s.client[t].isObserver THEN Goto(s1, t, "frame_done")
        ELSE Goto(s1, t, "mv_get")

\* The error of a legacy move is logged; no frame is sent.
LegacyMoveError(s, t) == Goto(s, t, "frame_done")

\* c.send <- errorBytes: a blocking send, possible when the queue has room;
\* on a closed channel it panics, blocked or not.
ObserverErrorEnabled(s, t) == t \in s.closed \/ Len(s.send[t]) < QueueCap

ObserverError(s, t) ==
    IF t \in s.closed THEN Panic(s, "send on closed channel")
    ELSE Goto([s EXCEPT !.send[t] = Append(@, ErrorFrame(s.loc[t].err))], t, "frame_done")

\* MoveErrorFrame followed by a broadcast of the game state.
MoveErrorFrameThenBroadcast(s, t) ==
    StartBroadcast(IF Len(s.send[t]) < QueueCap
                   THEN [s EXCEPT !.send[t] = Append(@, ErrorFrame(s.loc[t].err))]
                   ELSE s, t, "frame_done")

\* select { case c.send <- errorBytes: default: }
MoveErrorFrame(s, t) ==
    IF t \in s.closed THEN Panic(s, "send on closed channel")
    ELSE Goto(IF Len(s.send[t]) < QueueCap
              THEN [s EXCEPT !.send[t] = Append(@, ErrorFrame(s.loc[t].err))]
              ELSE s, t, "frame_done")

\* ResetFrame without the observer check.
ResetFrameNoObserverCheck(s, t) ==
    Goto([s EXCEPT !.loc[t] = ReaderLoc(s, t)], t, "rs_get")

\* case "reset"
ResetFrame(s, t) ==
    LET s1 == [s EXCEPT !.loc[t] = ReaderLoc(s, t)]
    IN  IF s.client[t].isObserver THEN Goto(s1, t, "frame_done")
        ELSE Goto(s1, t, "rs_get")

\* ResetGet that leaves the board as it is.
ResetGetKeepBoard(s, t) ==
    LET game == GetByRoomID(s.games, s.players, s.loc[t].room)
    IN  IF game = NoGame THEN Goto(s, t, "frame_done")
        ELSE [s EXCEPT !.pc[t] = "rs_update",
                       !.loc[t].game = [game EXCEPT !.status = "in_progress",
                                                    !.currentTurn = "X",
                                                    !.winnerID = NoID]]

\* ResetGet that leaves the winner as it is.
ResetGetKeepWinner(s, t) ==
    LET game == GetByRoomID(s.games, s.players, s.loc[t].room)
    IN  IF game = NoGame THEN Goto(s, t, "frame_done")
        ELSE [s EXCEPT !.pc[t] = "rs_update",
                       !.loc[t].game = [game EXCEPT !.board = EmptyBoard,
                                                    !.status = "in_progress",
                                                    !.currentTurn = "X"]]

\* game, err := gs.repo.GetByRoomID(c.room); the four assignments.
ResetGet(s, t) ==
    LET game == GetByRoomID(s.games, s.players, s.loc[t].room)
    IN  IF game = NoGame THEN Goto(s, t, "frame_done")
        ELSE [s EXCEPT !.pc[t] = "rs_update",
                       !.loc[t].game = [game EXCEPT !.board = EmptyBoard,
                                                    !.status = "in_progress",
                                                    !.currentTurn = "X",
                                                    !.winnerID = NoID]]

ResetUpdate(s, t) ==
    StartBroadcast([s EXCEPT !.games = Update(s.games, s.loc[t].game)], t, "frame_done")

\* Client.writePump, case message, ok := <-c.send: one frame goes to the socket.
WritePump(s, t) == [s EXCEPT !.send[t] = Tail(@)]

\* writePump returns: its deferred function closes the socket.
WriterReturn(s, t) == [s EXCEPT !.writer[t] = "done", !.conn[t] = "closed"]

\* writePump takes a frame from the queue; the write fails on a socket that is
\* not open, and writePump returns.
WriterFrame(s, t) ==
    IF s.conn[t] = "open" THEN WritePump(s, t) ELSE WriterReturn(WritePump(s, t), t)

\* case <-ticker.C: the ping fails on a socket that is not open.
WriterPing(s, t) == IF s.conn[t] = "open" THEN s ELSE WriterReturn(s, t)

\* readPump: ReadMessage returns an error on a socket that is not open, the
\* loop breaks and the deferred function runs.
ReaderError(s, t) == Goto(s, t, "rd_unregister")

\* The deferred function of readPump: c.hub.unregister <- c, the rendezvous
\* with Hub.Run at its select, then c.conn.Close().
ReaderUnregister(s, t) ==
    [s EXCEPT !.hubUnreg = [c |-> t, at |-> "remove"],
              !.conn[t] = "closed",
              !.pc[t] = "rd_done"]

----------------------------------------------------------------------------
(* Hub.Run, case client := <-h.unregister, and Hub.broadcast step by step *)

\* h.mu.Lock(), which waits for the holders of the read lock; the client
\* leaves its room under the write lock.
HubUnregisterRemove(s) ==
    LET c == s.hubUnreg.c
    IN  [s EXCEPT !.rooms[s.client[c].room] = @ \ {c}, !.hubUnreg.at = "close"]

\* close(client.send), after the write lock is released, whatever the state of
\* the channel: closing a closed channel panics.
HubUnregisterClose(s) ==
    LET c == s.hubUnreg.c
    IN  IF c \in s.closed THEN Panic(s, "close of closed channel")
        ELSE [s EXCEPT !.closed = @ \cup {c}, !.hubUnreg = NoUnreg]

\* h.mu.RLock(), granted unless Hub.Run holds or awaits the write lock.  The
\* range loop starts on the members of the room.
BroadcastRLock(s, t) ==
    [s EXCEPT !.mu = @ \cup {t},
              !.loc[t].bcTodo = s.rooms[s.loc[t].room],
              !.pc[t] = "bc_loop"]

\* The range loop of task t comes to client c, a member of the room.
BroadcastNext(s, t, c) ==
    LET l == s.loc[t]
    IN  BroadcastClient([s EXCEPT !.loc[t].bcTodo = @ \ {c}], l.room, c,
                        StateFrame(Row(l.bcGame), l.bcX, l.bcO))

\* defer h.mu.RUnlock(), and broadcastGameState returns.
BroadcastRUnlock(s, t) == EndBroadcast([s EXCEPT !.mu = @ \ {t}], t)

----------------------------------------------------------------------------
(* Scheduling *)

Quiet(label) == label \in {"idle", "reader", "rejected", "joined", "rd_done"}

\* The next step of task t, by its position.
TaskStep(s, t) ==
    CASE s.pc[t] = "join_player" -> JoinGetPlayer(s, t)
      [] s.pc[t] = "join_get"    -> JoinGetGame(s, t)
      [] s.pc[t] = "join_create" -> JoinCreate(s, t)
      [] s.pc[t] = "join_reget"  -> JoinReget(s, t)
      [] s.pc[t] = "join_update" -> JoinUpdate(s, t)
      [] s.pc[t] = "ws_client"   -> WsClient(s, t)
      [] s.pc[t] = "ws_register" -> WsRegister(s, t)
      [] s.pc[t] = "ws_start"    -> WsStart(s, t)
      [] s.pc[t] = "ws_pumps"    -> WsPumps(s, t)
      [] s.pc[t] = "bc_game"     -> BroadcastGetGame(s, t)
      [] s.pc[t] = "bc_x"        -> BroadcastGetX(s, t)
      [] s.pc[t] = "bc_o"        -> BroadcastGetO(s, t)
      [] s.pc[t] = "bc_send"     -> BroadcastSend(s, t)
      [] s.pc[t] = "mv_get"      -> MoveGet(s, t)
      [] s.pc[t] = "mv_err"      -> MoveErrorFrame(s, t)
      [] s.pc[t] = "lg_err"      -> LegacyMoveError(s, t)
      [] s.pc[t] = "mv_win_get"  -> MoveWinGet(s, t)
      [] s.pc[t] = "mv_win_put"  -> MoveWinPut(s, t)
      [] s.pc[t] = "mv_lose_get" -> MoveLoseGet(s, t)
      [] s.pc[t] = "mv_lose_put" -> MoveLosePut(s, t)
      [] s.pc[t] = "mv_dx_get"   -> MoveDrawXGet(s, t)
      [] s.pc[t] = "mv_dx_put"   -> MoveDrawXPut(s, t)
      [] s.pc[t] = "mv_do_get"   -> MoveDrawOGet(s, t)
      [] s.pc[t] = "mv_do_put"   -> MoveDrawOPut(s, t)
      [] s.pc[t] = "mv_update"   -> MoveUpdate(s, t)
      [] s.pc[t] = "obs_err"     -> ObserverError(s, t)
      [] s.pc[t] = "rs_get"      -> ResetGet(s, t)
      [] s.pc[t] = "rs_update"   -> ResetUpdate(s, t)
      [] s.pc[t] = "frame_done"  -> FrameDone(s, t)

\* A task can take its step unless it waits for the hub or for room in a queue.
TaskEnabled(s, t) ==
    /\ s.panic = ""
    /\ ~Quiet(s.pc[t])
    /\ s.pc[t] = "ws_register" => s.hubReg = NoID
    /\ s.pc[t] = "obs_err" => ObserverErrorEnabled(s, t)

\* The states in which the operation of task t has completed and Hub.Run is
\* back at its select, over every interleaving of the task's steps with Hub.Run.
RECURSIVE Outcomes(_, _)
Outcomes(s, t) ==
    IF s.panic # "" \/ (Quiet(s.pc[t]) /\ s.hubReg = NoID) THEN {s}
    ELSE (IF TaskEnabled(s, t) THEN Outcomes(TaskStep(s, t), t) ELSE {})
            \cup (IF s.hubReg # NoID THEN Outcomes(HubRegister(s), t) ELSE {})

\* No handler is running, Hub.Run is at its select and every writePump has
\* written out its queue.
Quiescent ==
    /\ \A t \in Tasks : Quiet(pc[t]) /\ send[t] = <<>>
    /\ hubReg = NoID
    /\ hubUnreg = NoUnreg
    /\ mu = {}
    /\ panic = ""

\* Twice the number of games the statistics record as finished: a finished game
\* adds one win (and one loss) or two draws.
RECURSIVE FinishedTwice(_)
FinishedTwice(ps) ==
    IF ps = <<>> THEN 0
    ELSE 2 * Head(ps).wins + Head(ps).draws + FinishedTwice(Tail(ps))

\* Reset frames are issued while fewer than MaxGames games have finished.
MayReset(t) == client[t].isObserver \/ FinishedTwice(players) < 2 * MaxGames

----------------------------------------------------------------------------
(* Spec: operations run one at a time *)

Init ==
    /\ players = <<>>
    /\ games = <<>>
    /\ rooms = [r \in Rooms |-> {}]
    /\ send = [t \in Tasks |-> <<>>]
    /\ closed = {}
    /\ client = [t \in Tasks |-> NoClient]
    /\ pc = [t \in Tasks |-> "idle"]
    /\ loc = [t \in Tasks |-> NoLoc]
    /\ hubReg = NoID
    /\ roomIDUnique = FALSE
    /\ conn = [t \in Tasks |-> "none"]
    /\ writer = [t \in Tasks |-> "none"]
    /\ hubUnreg = NoUnreg
    /\ mu = {}
    /\ panic = ""

\* The requests of Spec: alice joins room r1, then bob does.
JoinScript == <<"alice", "bob">>

\* The states an operation, begun by the step `begun`, can end in.
JoinOutcomes(t, kind, roomID, name) == Outcomes(StartJoin(St, t, kind, roomID, name), t)
MoveOutcomes(t, position) == Outcomes(MoveFrame(St, t, position), t)
LegacyOutcomes(t, position) == Outcomes(LegacyMoveFrame(St, t, position), t)
ResetOutcomes(t) == Outcomes(ResetFrame(St, t), t)

\* A WebSocket attach (ServeWs) or an HTTP join (RoomHandler.JoinRoom), whole.
SerialJoin(t, kind, roomID, name) ==
    /\ Quiescent
    /\ pc[t] = "idle"
    /\ \A u \in Tasks : u < t => pc[u] # "idle"
    /\ \E s \in JoinOutcomes(t, kind, roomID, name) : Install(s)

\* A move frame read by the reader of connection t, whole.
SerialMove(t, position) ==
    /\ Quiescent
    /\ pc[t] = "reader"
    /\ \E s \in MoveOutcomes(t, position) : Install(s)

\* A reset frame read by the reader of connection t, whole.
SerialReset(t) ==
    /\ Quiescent
    /\ pc[t] = "reader"
    /\ MayReset(t)
    /\ \E s \in ResetOutcomes(t) : Install(s)

\* The writePump of connection t writes one queued frame to its socket.
WritePumpStep(t) ==
    /\ send[t] # <<>>
    /\ Install(WritePump(St, t))

Next ==
    \/ \E t \in 1 .. Len(JoinScript), kind \in {"ws", "http"} :
          SerialJoin(t, kind, "r1", JoinScript[t])
    \/ \E t \in Tasks, p \in Positions : SerialMove(t, p)
    \/ \E t \in Tasks : SerialReset(t)
    \/ \E t \in Tasks : WritePumpStep(t)

Spec == Init /\ [][Next]_vars

----------------------------------------------------------------------------
(* Vocabulary of the properties *)

\* The persisted game of room r1 in state record s.
GameOf(s) == GetByRoomID(s.games, s.players, "r1")

\* The connections whose move frames reach MakeMove.
Callers == {t \in Tasks : pc[t] = "reader" /\ ~client[t].isObserver}

SeatOfTurn(g) == IF g.currentTurn = "X" THEN g.playerXID ELSE g.playerOID

OtherSeat(g) == IF g.currentTurn = "X" THEN g.playerOID ELSE g.playerXID

\* MakeMove(room, playerID, p) passes the four validations on game g.
ValidMove(g, playerID, p) ==
    /\ g.status = "in_progress"
    /\ p >= 0 /\ p <= 8
    /\ Cell(g.board, p) = Blank
    /\ SeatOfTurn(g) # NoID
    /\ playerID = SeatOfTurn(g)

Marked(g, p) == [g.board EXCEPT ![p + 1] = g.currentTurn]

HasTriple(board) == \E k \in 1 .. 8 : Matches(board, WinConditions[k])

Marks(board) == Cardinality({i \in 1 .. Len(board) : board[i] # Blank})

StateFrames(q) == {i \in 1 .. Len(q) : q[i].type = "gameStateUpdate"}

ErrorFrames(q) == {i \in 1 .. Len(q) : q[i].type = "error"}

\* A state update carrying game state g is queued for some connection.
Announced(g) ==
    \E t \in Tasks : \E i \in StateFrames(send[t]) : send[t][i].gameState = Row(g)

----------------------------------------------------------------------------
\* C1: in every state in which no operation is running, for every connection
\* that can call MakeMove and every position p in -1..9, the call changes the
\* persisted board iff the game is in progress, 0 <= p <= 8, cell p is blank and
\* the caller sits in the seat of currentTurn; then exactly cell p changes, to
\* the symbol of currentTurn.
C1_BoardChangesIffValid ==
    Quiescent =>
        \A t \in Callers, p \in Positions : \A s \in MoveOutcomes(t, p) :
            LET g == GameOf(St)
                g2 == GameOf(s)
                valid == ValidMove(g, client[t].playerID, p)
            IN  /\ (g2.board # g.board) <=> valid
                /\ valid => g2.board = Marked(g, p)

\* A move has just been applied and announced: the board holds a mark.
C1_Witness ==
    /\ \A t \in Tasks : Quiet(pc[t])
    /\ GameOf(St).status = "in_progress"
    /\ Marks(GameOf(St).board) = 3
    /\ Announced(GameOf(St))

----------------------------------------------------------------------------
\* C2: a MakeMove that fails validation leaves the games and players tables
\* unchanged and enqueues exactly one frame, an error frame on the caller's own
\* queue, whose message is that of a cause that holds; the messages of the four
\* causes differ pairwise; no connection receives a state update.
C2_FailedMoveOnlyErrorFrame ==
    Quiescent =>
        \A t \in Callers, p \in Positions : \A s \in MoveOutcomes(t, p) :
            LET g == GameOf(St)
                id == client[t].playerID
                causes ==
                    (IF g.status # "in_progress" THEN {ErrNotInProgress} ELSE {})
                    \cup (IF p < 0 \/ p > 8 THEN {ErrOutOfBounds} ELSE {})
                    \cup (IF p >= 0 /\ p <= 8 /\ Cell(g.board, p) # Blank
                          THEN {ErrTaken} ELSE {})
                    \cup (IF SeatOfTurn(g) = NoID \/ id # SeatOfTurn(g)
                          THEN {ErrNotYourTurn} ELSE {})
            IN  /\ Cardinality({ErrNotInProgress, ErrOutOfBounds, ErrTaken,
                                ErrNotYourTurn}) = 4
                /\ causes # {} =>
                      /\ s.games = games
                      /\ s.players = players
                      /\ \A u \in Tasks \ {t} : s.send[u] = <<>>
                      /\ \E m \in causes : s.send[t] = <<ErrorFrame(m)>>

\* A move onto an occupied cell has just been answered with its error frame.
C2_Witness ==
    /\ \A t \in Tasks : Quiet(pc[t])
    /\ \E t \in Tasks : send[t] = <<ErrorFrame(ErrTaken)>>
    /\ \E t \in Tasks : send[t] = <<>> /\ pc[t] = "reader"

----------------------------------------------------------------------------
\* C3: a valid move that completes a triple finishes the game with the mover as
\* winner and currentTurn unchanged; the mover's wins and the other seated
\* player's losses grow by one and no other statistic changes.
C3_WinningMove ==
    Quiescent =>
        \A t \in Callers, p \in Positions : \A s \in MoveOutcomes(t, p) :
            LET g == GameOf(St)
                g2 == GameOf(s)
            IN  (ValidMove(g, client[t].playerID, p) /\ HasTriple(Marked(g, p))) =>
                    /\ g2.status = "finished"
                    /\ g2.winnerID = SeatOfTurn(g)
                    /\ g2.winnerID = client[t].playerID
                    /\ g2.currentTurn = g.currentTurn
                    /\ OtherSeat(g) # NoID
                    /\ s.players = [players EXCEPT ![SeatOfTurn(g)].wins = @ + 1,
                                                   ![OtherSeat(g)].losses = @ + 1]

\* A second game has just been won by the winner of the first.
C3_Witness ==
    /\ \A t \in Tasks : Quiet(pc[t])
    /\ GameOf(St).status = "finished"
    /\ GameOf(St).winnerID # NoID
    /\ Announced(GameOf(St))
    /\ players[GameOf(St).winnerID].wins = 2

----------------------------------------------------------------------------
\* C4: a valid move that fills the last blank cell without completing a triple
\* finishes the game with no winner; the draws of the players in seat X and in
\* seat O grow by one each and no wins or losses change.
C4_DrawingMove ==
    Quiescent =>
        \A t \in Callers, p \in Positions : \A s \in MoveOutcomes(t, p) :
            LET g == GameOf(St)
                g2 == GameOf(s)
            IN  (/\ ValidMove(g, client[t].playerID, p)
                 /\ ~HasTriple(Marked(g, p))
                 /\ Marks(g.board) = 8) =>
                    /\ g2.status = "finished"
                    /\ g2.winnerID = NoID
                    /\ s.players = [players EXCEPT ![g.playerXID].draws = @ + 1,
                                                   ![g.playerOID].draws = @ + 1]

\* A game has just ended in a draw, counted for both seats.
C4_Witness ==
    /\ \A t \in Tasks : Quiet(pc[t])
    /\ GameOf(St).status = "finished"
    /\ GameOf(St).winnerID = NoID
    /\ ~ContainsBlank(GameOf(St).board)
    /\ Announced(GameOf(St))
    /\ players[GameOf(St).playerXID].draws = 1
    /\ players[GameOf(St).playerOID].draws = 1

----------------------------------------------------------------------------
BoardXOXOXOXOX == <<"X", "O", "X", "O", "X", "O", "X", "O", "X">>

BoardXXX == <<"X", "X", "X", " ", " ", " ", " ", " ", " ">>

\* C5, as claimed: a move that produces the board XOXOXOXOX finishes the game as
\* a draw (winner unset, both draws counted), and XXX with six blanks is a win
\* for X.
C5_FullBoardIsDraw ==
    Quiescent =>
        \A t \in Callers, p \in Positions : \A s \in MoveOutcomes(t, p) :
            LET g == GameOf(St)
                g2 == GameOf(s)
            IN  (ValidMove(g, client[t].playerID, p) /\ Marked(g, p) = BoardXOXOXOXOX) =>
                    /\ checkWinner(BoardXXX) = "X"
                    /\ g2.status = "finished"
                    /\ g2.winnerID = NoID
                    /\ s.players = [players EXCEPT ![g.playerXID].draws = @ + 1,
                                                   ![g.playerOID].draws = @ + 1]

\* C5, amended: a move that produces the board XOXOXOXOX completes the diagonals
\* 0-4-8 and 2-4-6 and finishes the game as a win for X (winner is the player in
\* seat X, one win and one loss counted, no draw), and XXX with six blanks is a
\* win for X.
C5_FullBoardIsWinForX ==
    Quiescent =>
        \A t \in Callers, p \in Positions : \A s \in MoveOutcomes(t, p) :
            LET g == GameOf(St)
                g2 == GameOf(s)
            IN  (ValidMove(g, client[t].playerID, p) /\ Marked(g, p) = BoardXOXOXOXOX) =>
                    /\ checkWinner(BoardXXX) = "X"
                    /\ g2.status = "finished"
                    /\ g2.winnerID = g.playerXID
                    /\ s.players = [players EXCEPT ![g.playerXID].wins = @ + 1,
                                                   ![g.playerOID].losses = @ + 1]

\* The board XOXOXOXOX has just been produced and announced.
C5_Witness ==
    /\ \A t \in Tasks : Quiet(pc[t])
    /\ GameOf(St).board = BoardXOXOXOXOX
    /\ GameOf(St).status = "finished"
    /\ Announced(GameOf(St))

----------------------------------------------------------------------------
\* C6: a valid move that neither completes a triple nor fills the board leaves
\* the game in progress with no winner and gives the turn to the other symbol;
\* the k-th valid move of a game (k marks on the board before it) is X's when k
\* is even and O's when k is odd.
C6_TurnAlternates ==
    Quiescent =>
        \A t \in Callers, p \in Positions : \A s \in MoveOutcomes(t, p) :
            LET g == GameOf(St)
                g2 == GameOf(s)
            IN  ValidMove(g, client[t].playerID, p) =>
                    /\ g.currentTurn = (IF Marks(g.board) % 2 = 0 THEN "X" ELSE "O")
                    /\ (~HasTriple(Marked(g, p)) /\ Marks(g.board) < 8) =>
                          /\ g2.status = "in_progress"
                          /\ g2.winnerID = NoID
                          /\ g2.currentTurn # g.currentTurn
                          /\ g2.currentTurn \in {"X", "O"}

\* After a reset, X and then O have moved: it is X's turn again.
C6_Witness ==
    /\ \A t \in Tasks : Quiet(pc[t])
    /\ GameOf(St).status = "in_progress"
    /\ GameOf(St).currentTurn = "X"
    /\ Marks(GameOf(St).board) = 2
    /\ FinishedTwice(players) = 2
    /\ Announced(GameOf(St))

----------------------------------------------------------------------------
----------------------------------------------------------------------------
\* C8, as claimed: whenever no join is in flight, a game with seat X and seat O
\* both filled does not have status waiting.
C8_FilledSeatsNotWaiting ==
    (\A t \in Tasks : Quiet(pc[t])) =>
        \A i \in 1 .. Len(games) :
            (games[i].playerXID # NoID /\ games[i].playerOID # NoID)
                => games[i].status # "waiting"

----------------------------------------------------------------------------
(* SpecRace: joins to one room run concurrently, step by step *)

\* Steps that SpecRace runs together with the step before them: the building
\* of the Client and the start of the pumps touch no shared state, and the two
\* GetPlayerByID reads of a broadcast read rows that no join ever changes.
Silent == {"ws_client", "ws_pumps", "bc_x", "bc_o"}

RECURSIVE Settle(_, _)
Settle(s, t) == IF s.pc[t] \in Silent THEN Settle(TaskStep(s, t), t) ELSE s

\* SpecRace starts on either revision of the games table.
InitRace ==
    /\ players = <<>>
    /\ games = <<>>
    /\ rooms = [r \in Rooms |-> {}]
    /\ send = [t \in Tasks |-> <<>>]
    /\ closed = {}
    /\ client = [t \in Tasks |-> NoClient]
    /\ pc = [t \in Tasks |-> "idle"]
    /\ loc = [t \in Tasks |-> NoLoc]
    /\ hubReg = NoID
    /\ roomIDUnique \in BOOLEAN
    /\ conn = [t \in Tasks |-> "none"]
    /\ writer = [t \in Tasks |-> "none"]
    /\ hubUnreg = NoUnreg
    /\ mu = {}
    /\ panic = ""

\* The requests of SpecRace arrive in the order of RaceNames, each while
\* fewer than MaxRacing operations are running.
RaceNames == <<"alice", "bob", "carol">>

\* The moves of SpecRace, in order: X takes the top row.
RaceMoves == <<0, 3, 1, 4, 2>>

BeginJoin(t, kind, roomID, name) ==
    /\ pc[t] = "idle"
    /\ \A u \in 1 .. t - 1 : pc[u] # "idle"
    /\ Cardinality({u \in Tasks : ~Quiet(pc[u])}) < MaxRacing
    /\ Install(StartJoin(St, t, kind, roomID, name))

\* The next move of RaceMoves, sent by connection t while nothing else runs.
RaceMove(t) ==
    /\ Quiescent
    /\ pc[t] = "reader"
    /\ GameOf(St).status = "in_progress"
    /\ Marks(GameOf(St).board) < Len(RaceMoves)
    /\ \E s \in MoveOutcomes(t, RaceMoves[Marks(GameOf(St).board) + 1]) : Install(s)

DoJoinGetPlayer(t) == pc[t] = "join_player" /\ Install(Settle(JoinGetPlayer(St, t), t))

DoJoinGetGame(t) == pc[t] = "join_get" /\ Install(Settle(JoinGetGame(St, t), t))

DoJoinCreate(t) == pc[t] = "join_create" /\ Install(Settle(JoinCreate(St, t), t))

DoJoinReget(t) == pc[t] = "join_reget" /\ Install(Settle(JoinReget(St, t), t))

DoJoinUpdate(t) == pc[t] = "join_update" /\ Install(Settle(JoinUpdate(St, t), t))

DoWsRegister(t) ==
    pc[t] = "ws_register" /\ hubReg = NoID /\ Install(Settle(WsRegister(St, t), t))

DoHubRegister == hubReg # NoID /\ Install(HubRegister(St))

DoBroadcastGetGame(t) == pc[t] = "bc_game" /\ Install(Settle(BroadcastGetGame(St, t), t))

DoBroadcastSend(t) == pc[t] = "bc_send" /\ Install(Settle(BroadcastSend(St, t), t))

DoWsStart(t) == pc[t] = "ws_start" /\ Install(Settle(WsStart(St, t), t))

NextRace ==
    \/ \E t \in 1 .. Len(RaceNames), kind \in {"ws", "http"} :
          BeginJoin(t, kind, "r1", RaceNames[t])
    \/ \E t \in Tasks : DoJoinGetPlayer(t)
    \/ \E t \in Tasks : DoJoinGetGame(t)
    \/ \E t \in Tasks : DoJoinCreate(t)
    \/ \E t \in Tasks : DoJoinReget(t)
    \/ \E t \in Tasks : DoJoinUpdate(t)
    \/ \E t \in Tasks : DoWsRegister(t)
    \/ DoHubRegister
    \/ \E t \in Tasks : DoBroadcastGetGame(t)
    \/ \E t \in Tasks : DoBroadcastSend(t)
    \/ \E t \in Tasks : DoWsStart(t)
    \/ \E t \in Tasks : WritePumpStep(t)
    \/ \E t \in Tasks : RaceMove(t)
    \/ \E t \in Tasks : SerialReset(t)

SpecRace == InitRace /\ [][NextRace]_vars

----------------------------------------------------------------------------
(* SpecJoin: joins under any of several names, run one at a time *)

\* The names of SpecJoin: two that differ in letter case only, one that ends
\* with a space (HandleConnection and JoinRoom pass the name on untrimmed).
JoinNames == {"alice", "Alice", "bob", "bob ", "carol"}

\* The next move of RaceMoves, sent by connection t as a bare integer.
LegacyMove(t) ==
    /\ Quiescent
    /\ pc[t] = "reader"
    /\ GameOf(St).status = "in_progress"
    /\ Marks(GameOf(St).board) < Len(RaceMoves)
    /\ \E s \in LegacyOutcomes(t, RaceMoves[Marks(GameOf(St).board) + 1]) : Install(s)

NextJoin ==
    \/ \E t \in Tasks, kind \in {"ws", "http"}, name \in JoinNames :
          SerialJoin(t, kind, "r1", name)
    \/ \E t \in Tasks : RaceMove(t)
    \/ \E t \in Tasks : LegacyMove(t)
    \/ \E t \in Tasks : SerialReset(t)
    \/ \E t \in Tasks : WritePumpStep(t)

SpecJoin == Init /\ [][NextJoin]_vars

----------------------------------------------------------------------------
\* C9, as claimed: once the joins of alice and bob to room r1, which had no
\* game, have both succeeded, the two of them hold seat X and seat O of the
\* game of r1, whatever the interleaving of the steps of the two joins.
C9_RacingJoinsBothSeated ==
    (pc[1] \in {"reader", "joined"} /\ pc[2] \in {"reader", "joined"}) =>
        LET g == GameOf(St)
        IN  {g.playerXID, g.playerOID} =
                {PlayerIDByName(players, RaceNames[1]), PlayerIDByName(players, RaceNames[2])}

----------------------------------------------------------------------------
\* C10, as claimed: in every reachable state, under every interleaving of the
\* joins, no two rows of the games table have the same room id.
C10_OneGamePerRoom ==
    \A i, j \in 1 .. Len(games) : games[i].roomID = games[j].roomID => i = j

----------------------------------------------------------------------------
(* Vocabulary of the join properties *)

\* Player id holds seat X or seat O of game g.
Seated(g, id) == id # NoID /\ id \in {g.playerXID, g.playerOID}

\* name equals, ignoring letter case, the name of a player seated in game g.
SeatedName(g, name) ==
    \/ g.playerX # "" /\ EqualFold(g.playerX, name)
    \/ g.playerO # "" /\ EqualFold(g.playerO, name)

\* The collision test of HandleJoinRoom: the name, trimmed and lowercased,
\* equals the lowercased name of a player seated in game g.
CollidingName(g, name) ==
    \/ g.playerX # "" /\ ToLower(g.playerX) = ToLower(TrimSpace(name))
    \/ g.playerO # "" /\ ToLower(g.playerO) = ToLower(TrimSpace(name))

\* Connection t is registered in some room of the hub.
Registered(s, t) == \E r \in Rooms : t \in s.rooms[r]

\* The join of task t has succeeded: the HTTP reply is sent or the pumps run.
Joined(s, t, kind) == s.pc[t] = IF kind = "ws" THEN "reader" ELSE "joined"

----------------------------------------------------------------------------
\* C11, as claimed: a join whose name equals, ignoring letter case, the name of
\* the player in seat X or seat O of the room's game is rejected with the
\* name-collision error, registers no connection and leaves the games table
\* unchanged.
C11_SeatedNameRejected ==
    Quiescent =>
        \A t \in Tasks, kind \in {"ws", "http"}, name \in JoinNames :
            pc[t] = "idle" =>
                \A s \in JoinOutcomes(t, kind, "r1", name) :
                    SeatedName(GameOf(St), name) =>
                        /\ s.pc[t] = "rejected"
                        /\ s.loc[t].err \in {ErrNameTaken, ErrNameTakenO}
                        /\ ~Registered(s, t)
                        /\ s.games = games

----------------------------------------------------------------------------
\* C12, as claimed: a join by a player who holds seat X or seat O of the room's
\* game succeeds, its connection (when it is a WebSocket attach) is an
\* observer, and both seats are unchanged.
C12_SeatedPlayerObserves ==
    Quiescent =>
        \A t \in Tasks, kind \in {"ws", "http"}, name \in JoinNames :
            pc[t] = "idle" =>
                \A s \in JoinOutcomes(t, kind, "r1", name) :
                    Seated(GameOf(St), PlayerIDByName(players, name)) =>
                        /\ Joined(s, t, kind)
                        /\ kind = "ws" => s.client[t].isObserver
                        /\ GameOf(s).playerXID = GameOf(St).playerXID
                        /\ GameOf(s).playerOID = GameOf(St).playerOID

----------------------------------------------------------------------------
----------------------------------------------------------------------------
\* The connections flagged observer whose reader is waiting for a frame.
Observers == {t \in Tasks : pc[t] = "reader" /\ client[t].isObserver}

\* The states a move frame, a bare-integer move frame or a reset frame read on
\* connection t can end in.
MutatingOutcomes(t) ==
    UNION {MoveOutcomes(t, p) \cup LegacyOutcomes(t, p) : p \in Positions}
        \cup ResetOutcomes(t)

\* C14: a move frame, a bare-integer move frame or a reset frame read on an
\* observer connection leaves the games table and the players table unchanged
\* and queues no state update for any connection.
C14_ObserverFramesChangeNothing ==
    Quiescent =>
        \A t \in Observers : \A s \in MutatingOutcomes(t) :
            /\ s.games = games
            /\ s.players = players
            /\ \A u \in Tasks : StateFrames(s.send[u]) = {}

\* An observer has just sent a move frame to a game in progress: the rejection
\* is in its queue and nothing else is queued.
C14_Witness ==
    /\ \A t \in Tasks : Quiet(pc[t])
    /\ GameOf(St).status = "in_progress"
    /\ Marks(GameOf(St).board) = 2
    /\ \E t \in Tasks :
          /\ pc[t] = "reader" /\ client[t].isObserver
          /\ send[t] = <<ErrorFrame(ErrObserverMove)>>
          /\ \A u \in Tasks \ {t} : send[u] = <<>>

----------------------------------------------------------------------------
\* C15, as claimed: every move frame and every reset frame read on an observer
\* connection queues exactly one frame, of type error, on that connection and
\* none on any other connection.
C15_ObserverFrameOneError ==
    Quiescent =>
        \A t \in Observers :
            \A s \in UNION {MoveOutcomes(t, p) : p \in Positions} \cup ResetOutcomes(t) :
                /\ Len(s.send[t]) = 1
                /\ s.send[t][1].type = "error"
                /\ \A u \in Tasks \ {t} : s.send[u] = <<>>

----------------------------------------------------------------------------
\* C16: a reset frame read on a non-observer connection whose player holds a
\* seat writes a blank board, status in_progress, currentTurn X and no winner,
\* and leaves the seats, the other columns of the game and the players table
\* unchanged.
C16_ResetReinitialises ==
    Quiescent =>
        \A t \in Callers : \A s \in ResetOutcomes(t) :
            LET g == GameOf(St)
            IN  Seated(g, client[t].playerID) =>
                    /\ s.games = Update(games, Row([g EXCEPT !.board = EmptyBoard,
                                                             !.status = "in_progress",
                                                             !.currentTurn = "X",
                                                             !.winnerID = NoID]))
                    /\ GameOf(s).playerXID = g.playerXID
                    /\ GameOf(s).playerOID = g.playerOID
                    /\ s.players = players

\* A finished game has just been reset: one game is in the statistics and the
\* blank board in progress has been announced.
C16_Witness ==
    /\ \A t \in Tasks : Quiet(pc[t])
    /\ GameOf(St).status = "in_progress"
    /\ GameOf(St).board = EmptyBoard
    /\ GameOf(St).winnerID = NoID
    /\ FinishedTwice(players) = 2
    /\ Announced(GameOf(St))

----------------------------------------------------------------------------
\* C17, as claimed: in every state in which no operation is running, also one
\* reached through concurrent joins, a reset frame read on connection t changes
\* the games table only if the player of t holds seat X or seat O of the game
\* of the room.
C17_ResetOnlyBySeated ==
    Quiescent =>
        \A t \in Tasks :
            pc[t] = "reader" =>
                \A s \in ResetOutcomes(t) :
                    s.games # games => Seated(GameOf(St), client[t].playerID)

----------------------------------------------------------------------------
\* C18, as claimed: in every step the status of the game of room r1 stays as it
\* is or goes from waiting to in_progress in a step that fills seat O, from
\* in_progress to finished, or from finished to in_progress; in particular no
\* reset takes a waiting game to in_progress.
C18_StatusTransitions ==
    [][LET g == GetByRoomID(games, players, "r1")
           g2 == GetByRoomID(games', players', "r1")
       IN  (g # NoGame /\ g2.status # g.status) =>
               \/ /\ g.status = "waiting" /\ g2.status = "in_progress"
                  /\ g.playerOID = NoID /\ g2.playerOID # NoID /\ g2.playerXID # NoID
               \/ g.status = "in_progress" /\ g2.status = "finished"
               \/ g.status = "finished" /\ g2.status = "in_progress"]_vars

----------------------------------------------------------------------------
\* C19, as claimed: every game whose status is in_progress or finished has seat
\* X and seat O filled, by two different players.
C19_StartedGameHasBothSeats ==
    \A i \in 1 .. Len(games) :
        games[i].status \in {"in_progress", "finished"} =>
            /\ games[i].playerXID # NoID
            /\ games[i].playerOID # NoID
            /\ games[i].playerXID # games[i].playerOID

----------------------------------------------------------------------------
\* C20: every game with a winner is finished, its board holds a completed
\* triple and the winner is the player in the seat of that triple's symbol;
\* a waiting game and a game in progress have no winner.
C20_WinnerOnlyWhenFinished ==
    \A i \in 1 .. Len(games) :
        LET g == games[i]
        IN  /\ g.winnerID # NoID =>
                /\ g.status = "finished"
                /\ \E k \in 1 .. Len(WinConditions) :
                      /\ Matches(g.board, WinConditions[k])
                      /\ g.winnerID = IF Cell(g.board, WinConditions[k][1]) = "X"
                                      THEN g.playerXID ELSE g.playerOID
            /\ g.status \in {"waiting", "in_progress"} => g.winnerID = NoID

\* A game has just been won by the player in seat O.
C20_Witness ==
    /\ \A t \in Tasks : Quiet(pc[t])
    /\ GameOf(St).status = "finished"
    /\ GameOf(St).winnerID # NoID
    /\ GameOf(St).winnerID = GameOf(St).playerOID
    /\ checkWinner(GameOf(St).board) = "O"
    /\ Announced(GameOf(St))

----------------------------------------------------------------------------
(* SpecRooms: two rooms, operations one at a time *)

\* The requests of SpecRooms and SpecHub, in the order of the connections.
HubNames == <<"alice", "bob", "carol">>

\* No handler is running and Hub.Run is at its select; queues may hold frames.
Idle ==
    /\ \A t \in Tasks : Quiet(pc[t])
    /\ hubReg = NoID
    /\ hubUnreg = NoUnreg
    /\ mu = {}
    /\ panic = ""

\* The game of the room connection t is attached to.
GameAt(s, t) == GetByRoomID(s.games, s.players, s.client[t].room)

\* The next move of RaceMoves on the game of connection t, whole.
RoomsMove(t) ==
    /\ Quiescent
    /\ pc[t] = "reader"
    /\ GameAt(St, t).status = "in_progress"
    /\ Marks(GameAt(St, t).board) < Len(RaceMoves)
    /\ \E s \in MoveOutcomes(t, RaceMoves[Marks(GameAt(St, t).board) + 1]) : Install(s)

\* MakeMove of connection t, alone, up to its write of the game; a move that
\* fails validation runs to its end.
RECURSIVE MoveUntilUpdate(_, _)
MoveUntilUpdate(s, t) ==
    IF Quiet(s.pc[t]) \/ s.pc[t] = "mv_update" THEN s
    ELSE MoveUntilUpdate(TaskStep(s, t), t)

\* alice and bob attach to room r1, carol to either room; the next move of
\* RaceMoves is made, or is made and its write of the game fails, while fewer
\* than MaxGames games are counted as finished.
NextRooms ==
    \/ \E t \in 1 .. Len(HubNames), roomID \in Rooms :
          (t <= 2 => roomID = "r1") /\ SerialJoin(t, "ws", roomID, HubNames[t])
    \/ \E t \in Tasks : RoomsMove(t)
    \/ \E t \in Tasks :
          /\ Quiescent
          /\ pc[t] = "reader"
          /\ GameAt(St, t).status = "in_progress"
          /\ Marks(GameAt(St, t).board) < Len(RaceMoves)
          /\ FinishedTwice(players) < 2 * MaxGames
          /\ LET s1 == MoveUntilUpdate(
                           MoveFrame(St, t, RaceMoves[Marks(GameAt(St, t).board) + 1]), t)
             IN  /\ s1.pc[t] = "mv_update"
                 /\ \E s \in Outcomes(MoveUpdateFails(s1, t), t) : Install(s)
    \/ \E t \in Tasks : SerialReset(t)
    \/ \E t \in Tasks : WritePumpStep(t)

SpecRooms == Init /\ [][NextRooms]_vars

\* The states a successful move or a successful reset on connection t ends in.
Broadcasts(t) ==
    {s \in UNION {MoveOutcomes(t, p) \cup LegacyOutcomes(t, p) : p \in Positions} :
        s.games # games}
      \cup (IF ~client[t].isObserver /\ GameAt(St, t) # NoGame
           THEN ResetOutcomes(t) ELSE {})

\* Queue q2 is queue q with one state update appended.
OneUpdateAppended(q, q2) ==
    /\ Len(q2) = Len(q) + 1
    /\ SubSeq(q2, 1, Len(q)) = q
    /\ q2[Len(q2)].type = "gameStateUpdate"

----------------------------------------------------------------------------
\* C21: a successful move and a successful reset on connection t append one
\* state update to the queue of every connection that is a member of t's room
\* and whose queue is not full, seated or observer, and leave the queue of
\* every other connection, the members of the other room among them, as it is.
C21_BroadcastReachesRoom ==
    Idle =>
        \A t \in Tasks :
            pc[t] = "reader" =>
                \A s \in Broadcasts(t) :
                    \A u \in Tasks :
                        IF u \in rooms[client[t].room] /\ Len(send[u]) < QueueCap
                        THEN OneUpdateAppended(send[u], s.send[u])
                        ELSE s.send[u] = send[u]

\* A move in room r1 has been announced to the two members of r1, while the
\* member of room r2 has nothing in its queue.
C21_Witness ==
    /\ Idle
    /\ Marks(GameOf(St).board) >= 1
    /\ Cardinality(rooms["r1"]) = 2
    /\ \A x \in rooms["r1"] :
          /\ send[x] # <<>>
          /\ send[x][Len(send[x])] =
                StateFrame(Row(GameOf(St)), GetPlayerByID(players, GameOf(St).playerXID),
                           GetPlayerByID(players, GameOf(St).playerOID))
    /\ \E u \in rooms["r2"] : send[u] = <<>>

----------------------------------------------------------------------------
\* C22, as claimed: every WebSocket join that succeeds leaves at least one
\* state update in the queue of the joining connection, however the steps of
\* Hub.Run interleave with those of ServeWs.
C22_JoinerGetsStateUpdate ==
    Quiescent =>
        \A t \in 1 .. Len(JoinScript) :
            (pc[t] = "idle" /\ \A u \in 1 .. t - 1 : pc[u] # "idle") =>
                \A s \in JoinOutcomes(t, "ws", "r1", JoinScript[t]) :
                    Joined(s, t, "ws") => StateFrames(s.send[t]) # {}

----------------------------------------------------------------------------
(* SpecHub: the three connections of room r1, from the join to the end of  *)
(* both pumps, with Hub.Run and Hub.broadcast taken step by step            *)

\* The seated connections that send frames: with one of them, no two tasks are
\* in Hub.broadcast at the same time.
Resetting == {1}

\* The connections whose socket may fail.
Failing == {NTasks}

\* A frame arrives on connection t, once the three connections are attached: a
\* reset frame from a seated player, a move frame from an observer.
HubFrame(t) ==
    /\ panic = ""
    /\ \A u \in 1 .. Len(HubNames) : pc[u] # "idle"
    /\ pc[t] = "reader"
    /\ conn[t] = "open"
    /\ client[t].isObserver \/ t \in Resetting
    /\ Install(IF client[t].isObserver THEN MoveFrame(St, t, 0) ELSE ResetFrame(St, t))

\* The peer goes away or the network fails: reads and writes fail from now on.
SocketFails(t) ==
    /\ panic = ""
    /\ t \in Failing
    /\ conn[t] = "open"
    /\ conn' = [conn EXCEPT ![t] = "failed"]
    /\ UNCHANGED <<players, games, rooms, send, closed, client, pc, loc, hubReg,
                   roomIDUnique, writer, hubUnreg, mu, panic>>

\* The next step of the handler of a frame, up to Hub.broadcast.
HubTaskStep(t) ==
    /\ pc[t] \in {"rs_get", "rs_update", "bc_game", "bc_x", "bc_o", "obs_err", "frame_done"}
    /\ TaskEnabled(St, t)
    /\ Install(TaskStep(St, t))

\* The steps of the reader of connection t: the handler of a frame,
\* Hub.broadcast from RLock to RUnlock, and the end of readPump.
ReaderNext(t) ==
    /\ panic = ""
    /\ \/ HubTaskStep(t)
       \/ /\ pc[t] = "bc_send"
          /\ hubReg = NoID /\ hubUnreg.at # "remove"
          /\ Install(BroadcastRLock(St, t))
       \/ /\ pc[t] = "bc_loop"
          /\ \E c \in loc[t].bcTodo : Install(BroadcastNext(St, t, c))
       \/ /\ pc[t] = "bc_loop"
          /\ loc[t].bcTodo = {}
          /\ Install(BroadcastRUnlock(St, t))
       \/ /\ pc[t] = "reader"
          /\ conn[t] \in {"failed", "closed"}
          /\ Install(ReaderError(St, t))
       \/ /\ pc[t] = "rd_unregister"
          /\ hubReg = NoID /\ hubUnreg = NoUnreg
          /\ Install(ReaderUnregister(St, t))

\* The steps of the writer of connection t: a frame of the queue, the closed
\* and drained queue, the ping on a socket that is not open.
WriterNext(t) ==
    /\ panic = ""
    /\ writer[t] = "running"
    /\ \/ send[t] # <<>> /\ Install(WriterFrame(St, t))
       \/ send[t] = <<>> /\ t \in closed /\ Install(WriterReturn(St, t))
       \/ conn[t] \in {"failed", "closed"} /\ Install(WriterPing(St, t))

\* The steps of Hub.Run on a client received from h.unregister.
HubRunNext ==
    /\ panic = ""
    /\ \/ hubUnreg.at = "remove" /\ mu = {} /\ Install(HubUnregisterRemove(St))
       \/ hubUnreg.at = "close" /\ Install(HubUnregisterClose(St))

NextHub ==
    \/ \E t \in 1 .. Len(HubNames) : SerialJoin(t, "ws", "r1", HubNames[t])
    \/ \E t \in Tasks : HubFrame(t)
    \/ \E t \in Tasks : SocketFails(t)
    \/ \E t \in Tasks : ReaderNext(t)
    \/ \E t \in Tasks : WriterNext(t)
    \/ HubRunNext

SpecHub == Init /\ [][NextHub]_vars

----------------------------------------------------------------------------
\* C23, as claimed: the queue of a connection is never closed a second time,
\* and once the reader and the writer of a connection have returned and
\* Hub.Run is done with its unregistration, the queue has been closed.
C23_QueueClosedOnce ==
    /\ panic # "close of closed channel"
    /\ \A t \in Tasks :
          (panic = "" /\ pc[t] = "rd_done" /\ writer[t] = "done" /\ hubUnreg.c # t) =>
              t \in closed

----------------------------------------------------------------------------
\* C24: wherever the range loop of Hub.broadcast stands, it can take its next
\* step, and the rest of the loop appends the message to the queue of every
\* client still to be visited whose queue has room, closes the queue of every
\* such client whose queue is full and removes it from the room, and touches
\* no other queue and no other member; the clients to be visited are members.
C24_BroadcastNeverBlocks ==
    \A t \in Tasks :
        (pc[t] = "bc_loop" /\ panic = "") =>
            LET l == loc[t]
                message == StateFrame(Row(l.bcGame), l.bcX, l.bcO)
                s == BroadcastLoop(St, l.room, l.bcTodo, message)
            IN  /\ ENABLED ReaderNext(t)
                /\ l.bcTodo \subseteq rooms[l.room]
                /\ \A u \in Tasks :
                      IF u \notin l.bcTodo
                      THEN /\ s.send[u] = send[u]
                           /\ u \in s.closed <=> u \in closed
                           /\ u \in s.rooms[l.room] <=> u \in rooms[l.room]
                      ELSE IF Len(send[u]) < QueueCap
                      THEN /\ s.send[u] = Append(send[u], message)
                           /\ u \notin s.closed
                           /\ u \in s.rooms[l.room]
                      ELSE /\ s.send[u] = send[u]
                           /\ u \in s.closed
                           /\ u \notin s.rooms[l.room]

\* A broadcast has closed the full queue of one member, removed it from the
\* room and appended the message to the queue of another member.
C24_Witness ==
    \E t \in Tasks :
        /\ pc[t] = "bc_loop"
        /\ loc[t].bcTodo = {}
        /\ \E u \in closed : Len(send[u]) = QueueCap /\ u \notin rooms[loc[t].room]
        /\ \E u \in rooms[loc[t].room] :
              /\ send[u] # <<>>
              /\ send[u][Len(send[u])] =
                    StateFrame(Row(loc[t].bcGame), loc[t].bcX, loc[t].bcO)

----------------------------------------------------------------------------
\* C25: in every reachable state no two players rows carry the same name; a
\* call of GetOrCreatePlayerByName(n) returns a row named n, and when such a
\* row exists it returns that row and writes nothing, so that a second call
\* changes no statistic; and no step of any operation changes the identity
\* that a name already has.
C25_PlayerIdentityStable ==
    /\ [](\A i, j \in 1 .. Len(players) : players[i].name = players[j].name => i = j)
    /\ [](\A n \in JoinNames :
            LET ps == GetOrCreatePlayerByName(players, n)
            IN  /\ PlayerIDByName(ps, n) # NoID
                /\ GetPlayerByID(ps, PlayerIDByName(ps, n)).name = n
                /\ PlayerIDByName(players, n) # NoID => ps = players
                /\ GetOrCreatePlayerByName(ps, n) = ps)
    /\ [][\A n \in JoinNames :
              PlayerIDByName(players, n) # NoID =>
                  PlayerIDByName(players', n) = PlayerIDByName(players, n)]_vars

\* Two connections have attached under one name, the second after a game of
\* the first was finished, and both carry the same player ID.
C25_Witness ==
    \E t, u \in Tasks :
        /\ t < u
        /\ pc[t] = "reader" /\ pc[u] = "reader"
        /\ client[t].playerName = client[u].playerName
        /\ client[t].playerID = client[u].playerID
        /\ LET p == GetPlayerByID(players, client[u].playerID)
           IN  p.wins + p.draws + p.losses >= 1

----------------------------------------------------------------------------
\* C26: every step that changes the membership of a room is taken while no
\* task holds the hub's read lock: Hub.Run changes rooms under the write lock,
\* which excludes every reader, and a task that holds only the read lock
\* leaves rooms alone.
C26_MembershipChangesUnderWriteLock ==
    [][rooms' # rooms => mu = {}]_vars

----------------------------------------------------------------------------
\* C27: every gameStateUpdate that a step appends to a connection's queue
\* carries, in the state the step leaves, the persisted game of its room and
\* the persisted players rows of the two seats of that game.
C27_BroadcastCarriesPersistedState ==
    [][\A t \in Tasks : \A i \in StateFrames(send'[t]) :
          i > Len(send[t]) =>
              LET frame == send'[t][i]
                  game  == GetByRoomID(games', players', frame.gameState.roomID)
              IN  /\ frame.gameState = Row(game)
                  /\ frame.X = GetPlayerByID(players', game.playerXID)
                  /\ frame.O = GetPlayerByID(players', game.playerOID)]_vars

----------------------------------------------------------------------------
\* C29: a MakeMove that violates one or more of the four preconditions is
\* answered with the error of the first violated one in the order: game not
\* in progress, position out of bounds, cell occupied, not your turn.
C29_FirstFailingCheckReported ==
    Quiescent =>
        \A t \in Callers, p \in Positions : \A s \in MoveOutcomes(t, p) :
            LET g == GameOf(St)
                notInProgress == g.status # "in_progress"
                outOfBounds == p < 0 \/ p > 8
                occupied == ~outOfBounds /\ Cell(g.board, p) # Blank
                notYourTurn == client[t].playerID # SeatOfTurn(g)
                first == IF notInProgress THEN ErrNotInProgress
                         ELSE IF outOfBounds THEN ErrOutOfBounds
                         ELSE IF occupied THEN ErrTaken
                         ELSE ErrNotYourTurn
            IN  (g # NoGame /\ (notInProgress \/ outOfBounds \/ occupied \/ notYourTurn)) =>
                    /\ ErrorFrames(s.send[t]) # {}
                    /\ \A i \in ErrorFrames(s.send[t]) : s.send[t][i].message = first

\* The player who is not on turn has moved onto an occupied cell of a game in
\* progress and holds the answer: the cell is taken.
C29_Witness ==
    \E t \in Callers :
        /\ \A u \in Tasks : Quiet(pc[u])
        /\ GameOf(St).status = "in_progress"
        /\ Marks(GameOf(St).board) >= 1
        /\ client[t].playerID # SeatOfTurn(GameOf(St))
        /\ \E i \in ErrorFrames(send[t]) : send[t][i].message = ErrTaken
        /\ \A u \in Tasks \ {t} : send[u] = <<>>

\* SpecHub under fair scheduling of every reader, every writer and Hub.Run.
\* The frames that arrive and the failures of sockets are up to the peers.
SpecHubFair ==
    /\ Init
    /\ [][NextHub]_vars
    /\ \A t \in Tasks : WF_vars(ReaderNext(t)) /\ WF_vars(WriterNext(t))
    /\ WF_vars(HubRunNext)

\* Connection t has left its room, its queue is closed and both pumps are over.
CleanedUp(t) ==
    /\ ~Registered(St, t)
    /\ t \in closed
    /\ pc[t] = "rd_done"
    /\ writer[t] = "done"

----------------------------------------------------------------------------
\* C28: whenever the socket of a registered connection has failed or is
\* closed, then eventually the connection is in no room, its queue is closed
\* and its reader and its writer have both returned.  A run in which the
\* process has stopped on a panic is counted as cleaned up, so that the
\* property speaks only of runs in which every task can still be scheduled.
C28_FailedConnectionCleanedUp ==
    \A t \in Tasks :
        (Registered(St, t) /\ conn[t] \in {"failed", "closed"})
            ~> (CleanedUp(t) \/ panic # "")

----------------------------------------------------------------------------
(* SpecBoards: MakeMove and checkWinner on every board.  alice (X) and bob  *)
(* (O) are attached to room r1, whose games row holds any of the 3^9 boards *)
(* and either turn; each move is sent by the connection on turn.            *)

InitBoards ==
    /\ players = << [id |-> 1, name |-> "alice", wins |-> 0, draws |-> 0, losses |-> 0],
                    [id |-> 2, name |-> "bob", wins |-> 0, draws |-> 0, losses |-> 0] >>
    /\ \E board \in [1 .. 9 -> {Blank, "X", "O"}], currentTurn \in {"X", "O"} :
          games = << [id |-> 1, roomID |-> "r1", playerXID |-> 1, playerOID |-> 2,
                      winnerID |-> NoID, status |-> "in_progress", board |-> board,
                      currentTurn |-> currentTurn, playerX |-> "", playerO |-> ""] >>
    /\ rooms = [r \in Rooms |-> IF r = "r1" THEN {1, 2} ELSE {}]
    /\ send = [t \in Tasks |-> <<>>]
    /\ closed = {}
    /\ client = [t \in Tasks |->
                    IF t <= 2
                    THEN [room |-> "r1", playerID |-> t, playerName |-> HubNames[t],
                          isObserver |-> FALSE]
                    ELSE NoClient]
    /\ pc = [t \in Tasks |-> IF t <= 2 THEN "reader" ELSE "idle"]
    /\ loc = [t \in Tasks |-> NoLoc]
    /\ hubReg = NoID
    /\ roomIDUnique = FALSE
    /\ conn = [t \in Tasks |-> IF t <= 2 THEN "open" ELSE "none"]
    /\ writer = [t \in Tasks |-> IF t <= 2 THEN "running" ELSE "none"]
    /\ hubUnreg = NoUnreg
    /\ mu = {}
    /\ panic = ""

\* The connection on turn sends a move frame for a blank cell, or a writePump
\* writes a frame.
NextBoards ==
    \/ \E t \in Tasks, p \in 0 .. 8 :
          /\ Quiescent
          /\ t \in Callers
          /\ ValidMove(GameOf(St), client[t].playerID, p)
          /\ \E s \in MoveOutcomes(t, p) : Install(s)
    \/ \E t \in Tasks : WritePumpStep(t)

SpecBoards == InitBoards /\ [][NextBoards]_vars

\* The 8 triples as the rules of the game give them: rows, then columns, then
\* the two diagonals.
Lines ==
    [k \in 1 .. 8 |->
        IF k <= 3 THEN <<3 * (k - 1), 3 * (k - 1) + 1, 3 * (k - 1) + 2>>
        ELSE IF k <= 6 THEN <<k - 4, k - 1, k + 2>>
        ELSE IF k = 7 THEN <<0, 4, 8>>
        ELSE <<2, 4, 6>>]

\* The lines of the board that hold three equal non-blank symbols.
FullLines(board) ==
    {k \in 1 .. 8 : \E symbol \in {"X", "O"} : \A i \in 1 .. 3 :
                        Cell(board, Lines[k][i]) = symbol}

----------------------------------------------------------------------------
\* C30: for every board, checkWinner returns "" iff no row, column or
\* diagonal holds three equal non-blank symbols, and otherwise the symbol of
\* the first such line in the order rows, columns, diagonals; and a move that
\* fills the last blank cell of a board without a full line and completes a
\* line finishes the game with the mover as winner: the mover gains a win,
\* the other seat a loss, and nobody a draw.
C30_CheckWinnerFirstTriple ==
    LET g == GameOf(St)
        full == FullLines(g.board)
    IN  /\ checkWinner(g.board) = "" <=> full = {}
        /\ full # {} =>
               checkWinner(g.board) =
                   Cell(g.board, Lines[CHOOSE k \in full : \A j \in full : k <= j][1])
        /\ Quiescent =>
               \A t \in Callers, p \in 0 .. 8 : \A s \in MoveOutcomes(t, p) :
                   (/\ ValidMove(g, client[t].playerID, p)
                    /\ Marks(g.board) = 8
                    /\ full = {}
                    /\ FullLines(Marked(g, p)) # {}) =>
                       LET g2 == GameOf(s)
                           mover == client[t].playerID
                           other == OtherSeat(g)
                       IN  /\ g2.board = Marked(g, p)
                           /\ g2.status = "finished"
                           /\ g2.winnerID = mover
                           /\ GetPlayerByID(s.players, mover).wins =
                                  GetPlayerByID(players, mover).wins + 1
                           /\ GetPlayerByID(s.players, other).losses =
                                  GetPlayerByID(players, other).losses + 1
                           /\ \A id \in {mover, other} :
                                  GetPlayerByID(s.players, id).draws =
                                      GetPlayerByID(players, id).draws

\* The move that filled the board completed a line: the game is finished, the
\* winner is recorded and has one win, and no draw is recorded.
C30_Witness ==
    LET g == GameOf(St)
    IN  /\ Marks(g.board) = 9
        /\ g.status = "finished"
        /\ g.winnerID # NoID
        /\ FullLines(g.board) # {}
        /\ GetPlayerByID(players, g.winnerID).wins = 1
        /\ \A i \in 1 .. Len(players) : players[i].draws = 0
        /\ Announced(g)

----------------------------------------------------------------------------
(* SpecOverlap: frames handled concurrently.  alice (X) and bob (O) are     *)
(* attached to room r1; alice is also attached to room r2, where she plays  *)
(* X against carol, whose connection has gone.  Both games are four moves   *)
(* into RaceMoves.  A frame arrives when nothing is running and the queues *)
(* are drained, or while other frames, fewer than MaxRacing, are handled.   *)

InitOverlap ==
    /\ players = [i \in 1 .. 3 |->
                     [id |-> i, name |-> HubNames[i], wins |-> 0, draws |-> 0, losses |-> 0]]
    /\ games = [i \in 1 .. 2 |->
                   [id |-> i, roomID |-> IF i = 1 THEN "r1" ELSE "r2",
                    playerXID |-> 1, playerOID |-> i + 1, winnerID |-> NoID,
                    status |-> "in_progress",
                    board |-> <<"X", "X", " ", "O", "O", " ", " ", " ", " ">>,
                    currentTurn |-> "X", playerX |-> "", playerO |-> ""]]
    /\ rooms = [r \in Rooms |-> IF r = "r1" THEN {1, 2} ELSE {3}]
    /\ send = [t \in Tasks |-> <<>>]
    /\ closed = {}
    /\ client = [t \in Tasks |->
                    [room |-> IF t = 3 THEN "r2" ELSE "r1",
                     playerID |-> IF t = 2 THEN 2 ELSE 1,
                     playerName |-> IF t = 2 THEN "bob" ELSE "alice",
                     isObserver |-> FALSE]]
    /\ pc = [t \in Tasks |-> "reader"]
    /\ loc = [t \in Tasks |-> NoLoc]
    /\ hubReg = NoID
    /\ roomIDUnique = FALSE
    /\ conn = [t \in Tasks |-> "open"]
    /\ writer = [t \in Tasks |-> "running"]
    /\ hubUnreg = NoUnreg
    /\ mu = {}
    /\ panic = ""

\* A reader receives the last move of RaceMoves, which wins its game, sent by
\* the player on turn; bob's reader receives a reset frame; a reader takes
\* its next step; a writePump writes a frame.
NextOverlap ==
    \/ \E t \in Tasks :
          /\ pc[t] = "reader"
          /\ panic = ""
          /\ Quiescent \/ Cardinality({u \in Tasks : ~Quiet(pc[u])}) \in 1 .. MaxRacing - 1
          /\ GameAt(St, t).status = "in_progress"
          /\ Marks(GameAt(St, t).board) = Len(RaceMoves) - 1
          /\ client[t].playerID = SeatOfTurn(GameAt(St, t))
          /\ Install(MoveFrame(St, t, RaceMoves[Len(RaceMoves)]))
    \/ \E t \in {2} :
          /\ pc[t] = "reader"
          /\ panic = ""
          /\ Quiescent \/ Cardinality({u \in Tasks : ~Quiet(pc[u])}) \in 1 .. MaxRacing - 1
          /\ MayReset(t)
          /\ Install(ResetFrame(St, t))
    \/ \E t \in Tasks : TaskEnabled(St, t) /\ Install(Settle(TaskStep(St, t), t))
    \/ \E t \in Tasks : WritePumpStep(t)

SpecOverlap == InitOverlap /\ [][NextOverlap]_vars

----------------------------------------------------------------------------
\* C35: in every state in which no frame is being handled, the last state
\* update in the queue of a registered connection carries the persisted game
\* of the connection's room.
C35_LastUpdateIsPersisted ==
    Idle =>
        \A t \in Tasks :
            (Registered(St, t) /\ StateFrames(send[t]) # {}) =>
                LET last == CHOOSE i \in StateFrames(send[t]) :
                                \A j \in StateFrames(send[t]) : j <= i
                IN  send[t][last].gameState = Row(GameAt(St, t))

----------------------------------------------------------------------------
\* C31: a join that is rejected leaves the players table and the games table
\* as they were: it creates no player row and creates or changes no games row.
C31_RejectedJoinChangesNothing ==
    Quiescent =>
        \A t \in Tasks, kind \in {"ws", "http"}, name \in JoinNames :
            pc[t] = "idle" =>
                \A s \in JoinOutcomes(t, kind, "r1", name) :
                    s.pc[t] = "rejected" =>
                        /\ s.players = players
                        /\ s.games = games

----------------------------------------------------------------------------
\* C32: no step changes or clears an occupied seat: a games row whose seat X
\* or seat O holds a player holds the same player in that seat after every
\* step, under every interleaving of the joins.
C32_OccupiedSeatKeepsPlayer ==
    [][\A i \in 1 .. Len(games) :
          /\ i <= Len(games')
          /\ games[i].playerXID # NoID => games'[i].playerXID = games[i].playerXID
          /\ games[i].playerOID # NoID => games'[i].playerOID = games[i].playerOID]_vars

----------------------------------------------------------------------------
\* C33: no task sends on a queue that has been closed: the process never
\* stops on the runtime panic "send on closed channel".
C33_NoSendOnClosedQueue ==
    panic # "send on closed channel"

----------------------------------------------------------------------------
\* C34: in every reachable state the board of every games row has 9 cells,
\* each blank, X or O, and holds as many X as O or one X more; while the game
\* is in progress the counts are equal exactly when it is X's turn and differ
\* by one exactly when it is O's turn.
C34_MarksFollowTurn ==
    \A i \in 1 .. Len(games) :
        LET g == games[i]
            x == Cardinality({k \in 1 .. Len(g.board) : g.board[k] = "X"})
            o == Cardinality({k \in 1 .. Len(g.board) : g.board[k] = "O"})
        IN  /\ Len(g.board) = 9
            /\ \A k \in 1 .. 9 : g.board[k] \in {Blank, "X", "O"}
            /\ x - o \in {0, 1}
            /\ g.status = "in_progress" =>
                   /\ x - o = 0 <=> g.currentTurn = "X"
                   /\ x - o = 1 <=> g.currentTurn = "O"

\* A game has been won, the board was reset, and three moves later it is O's
\* turn.
C34_Witness ==
    /\ GameOf(St).status = "in_progress"
    /\ GameOf(St).currentTurn = "O"
    /\ Marks(GameOf(St).board) = 3
    /\ \E i \in 1 .. Len(players) : players[i].wins >= 1

\* The sum of one statistic over all players rows.
RECURSIVE TotalOf(_, _)
TotalOf(ps, column) ==
    IF ps = <<>> THEN 0 ELSE Head(ps)[column] + TotalOf(Tail(ps), column)

----------------------------------------------------------------------------
\* C36: in every state in which no frame is being handled, the wins of all
\* players add up to the losses of all players, and the draws of all players
\* add up to an even number.
C36_WinsEqualLosses ==
    Idle =>
        /\ TotalOf(players, "wins") = TotalOf(players, "losses")
        /\ TotalOf(players, "draws") % 2 = 0

----------------------------------------------------------------------------
\* C37: a MakeMove whose write of the game fails returns its error with the
\* players table as it was when the move began: no wins, draws or losses have
\* changed.
C37_FailedMoveKeepsStatistics ==
    Quiescent =>
        \A t \in Callers, p \in 0 .. 8 :
            LET s1 == MoveUntilUpdate(MoveFrame(St, t, p), t)
            IN  s1.pc[t] = "mv_update" =>
                    \A s \in Outcomes(MoveUpdateFails(s1, t), t) :
                        /\ s.games = games
                        /\ s.players = players

----------------------------------------------------------------------------
\* C38: every state update in the queue of a connection carries, in its
\* isObserver field, the observer flag of that connection.
C38_UpdateCarriesObserverFlag ==
    \A t \in Tasks : \A i \in StateFrames(send[t]) :
        send[t][i].isObserver = client[t].isObserver

====
